---- MODULE Spec2Model ----
(***************************************************************************)
(* flowguide: mesh preprocessing (ProcessMesh::from), the multigrid        *)
(* hierarchy builder (hierarchy::build) and the hierarchical orientation   *)
(* field relaxation (orientation::hierarchical_smoothing).                 *)
(*                                                                         *)
(* Vertex, triangle and level indices are 0-based as in the source; a Vec  *)
(* is a sequence and At(s, i) reads its element i.                         *)
(***************************************************************************)
EXTENDS Integers, Sequences, FiniteSets, TLC

(***************************************************************************)
(* Bounds of the model.                                                    *)
(***************************************************************************)
\* largest number of vertices of an input mesh
MaxVerts == 3
\* largest number of triangles of an input mesh
MaxTris == 2
\* largest number of collapsed triangles (v, v, v) appended to an input mesh
MaxCollapsed == 2
\* largest iteration count handed to hierarchical_smoothing
MaxIterations == 1
\* number of calls of hierarchical_smoothing made on one hierarchy
Calls == 2

(***************************************************************************)
(* f32 arithmetic.  A value is a pair <<n, d>>: d > 0 is the rational n/d  *)
(* in lowest terms, <<1, 0>> and <<-1, 0>> are +inf and -inf, <<0, 0>> is  *)
(* NaN.  <<2, 0>> (Irr) stands for a square root that is not rational; it  *)
(* absorbs every operation, so a stored Irr shows that a run left the      *)
(* exactly representable values.  Rounding is not modelled: the values of  *)
(* the bounded runs are small rationals.                                   *)
(***************************************************************************)
Abs(x) == IF x < 0 THEN -x ELSE x

Sgn(x) == IF x < 0 THEN -1 ELSE IF x = 0 THEN 0 ELSE 1

RECURSIVE Gcd(_, _)
Gcd(a, b) == IF b = 0 THEN a ELSE Gcd(b, a % b)

Q(n, d) ==
  LET g == Gcd(Abs(n), Abs(d)) IN
  IF n = 0 THEN <<0, 1>> ELSE <<(Sgn(d) * n) \div g, Abs(d) \div g>>

NaN == <<0, 0>>

Irr == <<2, 0>>

F(k) == <<k, 1>>

IsNaN(x) == x = NaN

IsIrr(x) == x = Irr

IsInf(x) == x[2] = 0 /\ x[1] \in {1, -1}

IsFinite(x) == x[2] > 0

FNeg(a) == IF IsNaN(a) \/ IsIrr(a) THEN a ELSE <<-a[1], a[2]>>

FAdd(a, b) ==
  IF IsIrr(a) \/ IsIrr(b) THEN Irr
  ELSE IF IsNaN(a) \/ IsNaN(b) THEN NaN
  ELSE IF IsInf(a) THEN (IF IsInf(b) /\ a # b THEN NaN ELSE a)
  ELSE IF IsInf(b) THEN b
  ELSE Q(a[1] * b[2] + b[1] * a[2], a[2] * b[2])

FSub(a, b) == FAdd(a, FNeg(b))

FMul(a, b) ==
  IF IsIrr(a) \/ IsIrr(b) THEN Irr
  ELSE IF IsNaN(a) \/ IsNaN(b) THEN NaN
  ELSE IF IsInf(a) \/ IsInf(b)
    THEN (IF a[1] = 0 \/ b[1] = 0 THEN NaN ELSE <<Sgn(a[1]) * Sgn(b[1]), 0>>)
  ELSE Q(a[1] * b[1], a[2] * b[2])

\* zero divisors of the program are +0.0 (lengths, areas, squared norms)
FDiv(a, b) ==
  IF IsIrr(a) \/ IsIrr(b) THEN Irr
  ELSE IF IsNaN(a) \/ IsNaN(b) THEN NaN
  ELSE IF IsInf(a)
    THEN (IF IsInf(b) THEN NaN ELSE <<a[1] * (IF b[1] < 0 THEN -1 ELSE 1), 0>>)
  ELSE IF IsInf(b) THEN F(0)
  ELSE IF b[1] = 0 THEN (IF a[1] = 0 THEN NaN ELSE <<Sgn(a[1]), 0>>)
  ELSE Q(a[1] * b[2] * Sgn(b[1]), a[2] * Abs(b[1]))

\* f32::partial_cmp: "none" when an operand is NaN
FCmp(a, b) ==
  IF a[2] = 0 /\ a[1] \notin {1, -1} THEN "none"
  ELSE IF b[2] = 0 /\ b[1] \notin {1, -1} THEN "none"
  ELSE IF IsInf(a) THEN (IF a = b THEN "eq" ELSE IF a[1] > 0 THEN "gt" ELSE "lt")
  ELSE IF IsInf(b) THEN (IF b[1] > 0 THEN "lt" ELSE "gt")
  ELSE IF a[1] * b[2] < b[1] * a[2] THEN "lt"
  ELSE IF a[1] * b[2] > b[1] * a[2] THEN "gt"
  ELSE "eq"

FGt(a, b) == FCmp(a, b) = "gt"

FLt(a, b) == FCmp(a, b) = "lt"

RECURSIVE ISqrtFrom(_, _)
ISqrtFrom(n, r) == IF (r + 1) * (r + 1) > n THEN r ELSE ISqrtFrom(n, r + 1)

ISqrt(n) == ISqrtFrom(n, 0)

FSqrt(a) ==
  IF IsIrr(a) THEN Irr
  ELSE IF IsNaN(a) THEN NaN
  ELSE IF a[1] < 0 THEN NaN
  ELSE IF IsInf(a) THEN a
  ELSE LET rn == ISqrt(a[1])
           rd == ISqrt(a[2])
       IN IF rn * rn = a[1] /\ rd * rd = a[2] THEN <<rn, rd>> ELSE Irr

(***************************************************************************)
(* glam::Vec3: a triple of f32.                                            *)
(***************************************************************************)
Vec3(x, y, z) == <<x, y, z>>

ZERO == Vec3(F(0), F(0), F(0))

VAdd(u, v) == Vec3(FAdd(u[1], v[1]), FAdd(u[2], v[2]), FAdd(u[3], v[3]))

VSub(u, v) == Vec3(FSub(u[1], v[1]), FSub(u[2], v[2]), FSub(u[3], v[3]))

VNeg(u) == Vec3(FNeg(u[1]), FNeg(u[2]), FNeg(u[3]))

VScale(s, u) == Vec3(FMul(s, u[1]), FMul(s, u[2]), FMul(s, u[3]))

VDivS(u, s) == Vec3(FDiv(u[1], s), FDiv(u[2], s), FDiv(u[3], s))

VDot(u, v) == FAdd(FAdd(FMul(u[1], v[1]), FMul(u[2], v[2])), FMul(u[3], v[3]))

VCross(u, v) ==
  Vec3(FSub(FMul(u[2], v[3]), FMul(v[2], u[3])),
       FSub(FMul(u[3], v[1]), FMul(v[3], u[1])),
       FSub(FMul(u[1], v[2]), FMul(v[1], u[2])))

VLength(u) == FSqrt(VDot(u, u))

\* Vec3::normalize: self * (1.0 / self.length()); the zero vector gives NaN
VNormalize(u) == VScale(FDiv(F(1), VLength(u)), u)

VIsFinite(u) == \A k \in 1..3 : IsFinite(u[k])

(***************************************************************************)
(* Vec helpers.                                                            *)
(***************************************************************************)
At(s, i) == s[i + 1]

SetAt(s, i, x) == [s EXCEPT ![i + 1] = x]

Indices(s) == 0..(Len(s) - 1)

(***************************************************************************)
(* State.                                                                  *)
(*   pc      the statement the program is at                               *)
(*   input   the InputMesh handed to ProcessMesh::from                     *)
(*   from    the locals of ProcessMesh::from                               *)
(*   mesh    the argument of the running call of hierarchy::build          *)
(*   build   the locals of that call                                       *)
(*   stack   the callers of that call, outermost first: each waits with    *)
(*           its own mesh and up_mapping for the levels of the recursion   *)
(*   up      the Vec<HierarchyLevel> returned so far                       *)
(*   smooth  the running call of hierarchical_smoothing: its iteration     *)
(*           count, the length of the hierarchy prefix being solved, the   *)
(*           generators of the active calls (innermost last), the field,   *)
(*           the rest of the sweep's visiting order, the sweeps done on    *)
(*           the level, and the random draws made so far                   *)
(*   results what the calls of hierarchical_smoothing made so far returned *)
(*   reader  an AsyncStreamReader: buf and last_end, the chunks its source *)
(*           yields and how many it has yielded, and a record of the calls *)
(*           made on it                                                    *)
(***************************************************************************)
VARIABLES pc, input, from, mesh, build, stack, up, smooth, results, reader

vars == <<pc, input, from, mesh, build, stack, up, smooth, results, reader>>

buildVars == <<mesh, build, stack, up>>

smoothVars == <<smooth, results>>

afterFrom == <<buildVars, smoothVars>>

(***************************************************************************)
(* Input meshes.  Vertex i sits at (i, i*i, 0): the points are distinct    *)
(* and no three are collinear, so a triangle is degenerate exactly when it *)
(* repeats an index.  Normals are +z or -z.                                *)
(***************************************************************************)
Position(i) == Vec3(F(i), F(i * i), F(0))

UnitZ(s) == Vec3(F(0), F(0), F(s))

Triangles(n) == {<<a, b, c>> : a \in 0..(n - 1), b \in 0..(n - 1), c \in 0..(n - 1)}

SeqsUpTo(S, m) == UNION {[1..k -> S] : k \in 0..m}

\* mesh.rs:9-13, InputMesh
InputMesh(n, normals, tris) ==
  [vertices |-> [k \in 1..n |-> Position(k - 1)],
   normals  |-> normals,
   tris     |-> tris]

Collapsed(n) == {<<a, a, a>> : a \in 0..(n - 1)}

\* up to maxTris triangles with indices below n, then up to maxCollapsed collapsed ones
TriLists(n, maxTris, maxCollapsed) ==
  {t \o c : t \in SeqsUpTo(Triangles(n), maxTris),
            c \in SeqsUpTo(Collapsed(n), maxCollapsed)}

InputMeshes(maxVerts, maxTris, maxCollapsed, signs) ==
  UNION {{InputMesh(n, [k \in 1..n |-> UnitZ(sg[k])], tris) :
            sg \in [1..n -> signs], tris \in TriLists(n, maxTris, maxCollapsed)}
         : n \in 0..maxVerts}

(***************************************************************************)
(* ProcessMesh::from, mesh.rs:42-96.                                       *)
(***************************************************************************)
\* mesh.rs:44-49: every triangle (a, b, c) pushes (b, t) to a, (c, t) to b, (a, t) to c
RECURSIVE AdjacencyFrom(_, _, _)
AdjacencyFrom(adj, tris, t) ==
  IF t = Len(tris) THEN adj
  ELSE LET a == At(tris, t)[1]
           b == At(tris, t)[2]
           c == At(tris, t)[3]
           adj1 == SetAt(adj, a, Append(At(adj, a), <<b, t>>))
           adj2 == SetAt(adj1, b, Append(At(adj1, b), <<c, t>>))
           adj3 == SetAt(adj2, c, Append(At(adj2, c), <<a, t>>))
       IN AdjacencyFrom(adj3, tris, t + 1)

AdjacencyOf(n, tris) == AdjacencyFrom([k \in 1..n |-> <<>>], tris, 0)

\* tri.iter().position(|v| *v == dest): 0-based index of the first match, -1 for None
PositionIn(tri, dest) ==
  IF \E k \in 1..3 : tri[k] = dest
    THEN (CHOOSE k \in 1..3 : tri[k] = dest /\ \A m \in 1..(k - 1) : tri[m] # dest) - 1
    ELSE -1

\* mesh.rs:61: the vertex that follows dest in tri's cyclic order
NextDest(tri, dest) == tri[((PositionIn(tri, dest) + 1) % 3) + 1]

\* mesh.rs:65-68: circumcenter of tri relative to its third vertex
Circumcenter(vertices, tri) ==
  LET a == VSub(At(vertices, tri[1]), At(vertices, tri[3]))
      b == VSub(At(vertices, tri[2]), At(vertices, tri[3]))
      axb == VCross(a, b)
  IN VDivS(VCross(VSub(VScale(VDot(a, a), b), VScale(VDot(b, b), a)), axb),
           FMul(F(2), VDot(axb, axb)))

\* mesh.rs:70-71: adjacency_face[src].iter().filter(|v| v.0 == dest).next()
FirstWith(adj, dest) ==
  IF \E k \in 1..Len(adj) : adj[k][1] = dest
    THEN {adj[CHOOSE k \in 1..Len(adj) :
               adj[k][1] = dest /\ \A m \in 1..(k - 1) : adj[m][1] # dest]}
    ELSE {}

\* mesh.rs:81-85: half the length of the sum of consecutive cross products
RECURSIVE CrossSumFrom(_, _, _)
CrossSumFrom(v, cs, k) ==
  IF k = Len(cs) THEN v
  ELSE CrossSumFrom(VAdd(v, VCross(At(cs, k), At(cs, (k + 1) % Len(cs)))), cs, k + 1)

PolygonArea(cs) == FMul(Q(1, 2), VLength(CrossSumFrom(ZERO, cs, 0)))

\* a plausible slip for mesh.rs:76: the fallback leaves the initial area
FallbackAreaZero == F(0)

\* mesh.rs:76: the dual area of a vertex whose one-ring does not close
FallbackArea == F(1)

NoFrom ==
  [adjacency_face |-> <<>>, dual_area |-> <<>>, i |-> 0, dest |-> 0,
   tri |-> <<0, 0, 0>>, circumcenters |-> <<>>]

\* mesh.rs:44-51
FromAdjacency ==
  /\ pc = "from"
  /\ from' = [NoFrom EXCEPT
       !.adjacency_face = AdjacencyOf(Len(input.vertices), input.tris),
       !.dual_area = [k \in 1..Len(input.vertices) |-> F(0)]]
  /\ pc' = "from_vertex"
  /\ UNCHANGED <<input, reader, afterFrom>>

\* mesh.rs:52-57: the next vertex has an adjacency entry 0
FromVertex ==
  /\ pc = "from_vertex"
  /\ from.i < Len(input.vertices)
  /\ Len(At(from.adjacency_face, from.i)) > 0
  /\ LET first == At(At(from.adjacency_face, from.i), 0) IN
       from' = [from EXCEPT !.dest = first[1],
                            !.tri = At(input.tris, first[2]),
                            !.circumcenters = <<>>]
  /\ pc' = "from_walk"
  /\ UNCHANGED <<input, reader, afterFrom>>

\* mesh.rs:54: adjacency_face[src][0] of an empty list is out of bounds
FromIndexPanic ==
  /\ pc = "from_vertex"
  /\ from.i < Len(input.vertices)
  /\ Len(At(from.adjacency_face, from.i)) = 0
  /\ pc' = "panic_index"
  /\ UNCHANGED <<input, reader, from, afterFrom>>

\* mesh.rs:60-63, 81-85: the walk is back at the first neighbour
FromClose ==
  /\ pc = "from_walk"
  /\ LET d == NextDest(from.tri, from.dest) IN
       /\ d = At(At(from.adjacency_face, from.i), 0)[1]
       /\ from' = [from EXCEPT
            !.dest = d,
            !.dual_area = SetAt(from.dual_area, from.i, PolygonArea(from.circumcenters)),
            !.i = from.i + 1]
  /\ pc' = "from_vertex"
  /\ UNCHANGED <<input, reader, afterFrom>>

\* The list of circumcenters stops growing once it is longer than the adjacency
\* list of the vertex: the walk's state is its destination, a closing walk never
\* meets a destination twice, so no area is ever computed from a cut list.
PushCircumcenter(cs, c, adj) == IF Len(cs) > Len(adj) THEN cs ELSE Append(cs, c)

\* mesh.rs:60-73: one more triangle of the ring
FromStep ==
  /\ pc = "from_walk"
  /\ LET d == NextDest(from.tri, from.dest)
         adj == At(from.adjacency_face, from.i)
     IN
       /\ d # At(adj, 0)[1]
       /\ FirstWith(adj, d) # {}
       /\ \E e \in FirstWith(adj, d) :
            from' = [from EXCEPT
              !.dest = d,
              !.circumcenters =
                 PushCircumcenter(from.circumcenters,
                                  Circumcenter(input.vertices, from.tri), adj),
              !.tri = At(input.tris, e[2])]
  /\ pc' = "from_walk"
  /\ UNCHANGED <<input, reader, afterFrom>>

\* mesh.rs:74-78: no edge from the vertex to the destination: fallback area 1.0
FromFallback ==
  /\ pc = "from_walk"
  /\ LET d == NextDest(from.tri, from.dest)
         adj == At(from.adjacency_face, from.i)
     IN
       /\ d # At(adj, 0)[1]
       /\ FirstWith(adj, d) = {}
       /\ from' = [from EXCEPT
            !.dest = d,
            !.circumcenters =
               PushCircumcenter(from.circumcenters,
                                Circumcenter(input.vertices, from.tri), adj),
            !.dual_area = SetAt(from.dual_area, from.i, FallbackArea),
            !.i = from.i + 1]
  /\ pc' = "from_vertex"
  /\ UNCHANGED <<input, reader, afterFrom>>

\* mesh.rs:88-94: every vertex is done, the ProcessMesh is returned
FromReturn ==
  /\ pc = "from_vertex"
  /\ from.i = Len(input.vertices)
  /\ pc' = "from_done"
  /\ UNCHANGED <<input, reader, from, afterFrom>>

\* mesh.rs:34-40, 88-94: the ProcessMesh that from() returns
ProcessMesh(vertices, normals, tris, adjacency_face, dual_area) ==
  [vertices |-> vertices, normals |-> normals, tris |-> tris,
   adjacency_face |-> adjacency_face, dual_area |-> dual_area]

Processed ==
  ProcessMesh(input.vertices, input.normals, input.tris,
              from.adjacency_face, from.dual_area)

(***************************************************************************)
(* hierarchy::build, hierarchy.rs:8-92.                                    *)
(***************************************************************************)
\* usize::MAX marks an unclaimed vertex (hierarchy.rs:37) and fills the face slot
\* of a coarse adjacency entry (hierarchy.rs:72); the model needs it only to
\* differ from every index, and uses the largest integer TLC has
usize_MAX == 2147483647

\* hierarchy.rs:3-6
HierarchyLevel(m, up_mapping) == [mesh |-> m, up_mapping |-> up_mapping]

\* hierarchy.rs:18: the ratio factor of the merge score
Ratio(ai, aj) == IF FGt(ai, aj) THEN FDiv(ai, aj) ELSE FDiv(aj, ai)

\* hierarchy.rs:16-20: the merge score of the directed edge (i, j)
Rank(m, i, j) ==
  LET ai == At(m.dual_area, i)
      aj == At(m.dual_area, j)
      ratio == Ratio(ai, aj)
  IN FMul(VDot(At(m.normals, i), At(m.normals, j)), ratio)

RECURSIVE Concat(_, _)
Concat(ss, k) == IF k > Len(ss) THEN <<>> ELSE ss[k] \o Concat(ss, k + 1)

\* a plausible slip for hierarchy.rs:13-22: only the first adjacency entry of
\* every vertex is ranked
RankingOfFirst(m) ==
  Concat([v \in 1..Len(m.adjacency_face) |->
            [k \in 1..(IF Len(m.adjacency_face[v]) = 0 THEN 0 ELSE 1) |->
               <<v - 1, m.adjacency_face[v][k][1],
                 Rank(m, v - 1, m.adjacency_face[v][k][1])>>]], 1)

\* hierarchy.rs:9-23: one (i, j, rank) per adjacency entry, vertex by vertex
RankingOf(m) ==
  Concat([v \in 1..Len(m.adjacency_face) |->
            [k \in 1..Len(m.adjacency_face[v]) |->
               <<v - 1, m.adjacency_face[v][k][1],
                 Rank(m, v - 1, m.adjacency_face[v][k][1])>>]], 1)

\* hierarchy.rs:32: the comparator b.partial_cmp(a) puts a before b when b's rank is less
SortsBefore(a, b) == FCmp(b[3], a[3]) = "lt"

\* hierarchy.rs:32: unwrap() of a comparison with NaN; a sort of two or more
\* entries compares every entry at least once
SortPanics(ranking) ==
  Len(ranking) >= 2 /\ \E k \in 1..Len(ranking) : FCmp(ranking[k][3], ranking[k][3]) = "none"

NoBuild ==
  [ranking |-> <<>>, rest |-> {}, scanned |-> 0, last |-> <<>>,
   vertices |-> <<>>, normals |-> <<>>, dual_area |-> <<>>, up_mapping |-> <<>>]

\* a plausible slip for hierarchy.rs:25: the recursion stops while edges remain
RankingIsShort(ranking) == Len(ranking) <= 2

\* hierarchy.rs:25: ranking.is_empty()
RankingIsEmpty(ranking) == ranking = <<>>

\* a plausible slip for hierarchy.rs:28: the coarsest level maps every vertex to itself
TerminalLevelIdentity(m) == HierarchyLevel(m, [k \in 1..Len(m.vertices) |-> k - 1])

\* hierarchy.rs:26-29: the level of a mesh without adjacency edges
TerminalLevel(m) == HierarchyLevel(m, <<>>)

\* a plausible slip for hierarchy.rs:90: the level goes to the front of the Vec
PushLevelFront(levels, level) == <<level>> \o levels

\* hierarchy.rs:90: up.push(HierarchyLevel { mesh, up_mapping })
PushLevel(levels, level) == Append(levels, level)

\* lib.rs:77-81: the processed mesh goes to hierarchy::build
BuildCall ==
  /\ pc = "from_done"
  /\ mesh' = Processed
  /\ build' = NoBuild
  /\ pc' = "build"
  /\ UNCHANGED <<smoothVars, input, reader, from, stack, up>>

\* hierarchy.rs:25-30: no adjacency edge: the call returns one level
BuildTerminal ==
  /\ pc = "build"
  /\ RankingIsEmpty(RankingOf(mesh))
  /\ up' = <<TerminalLevel(mesh)>>
  /\ pc' = IF stack = <<>> THEN "build_done" ELSE "build_return"
  /\ UNCHANGED <<smoothVars, input, reader, from, mesh, build, stack>>

\* hierarchy.rs:32: the sort compares a NaN rank
BuildSortPanic ==
  /\ pc = "build"
  /\ ~RankingIsEmpty(RankingOf(mesh))
  /\ SortPanics(RankingOf(mesh))
  /\ pc' = "panic_unwrap"
  /\ UNCHANGED <<smoothVars, input, reader, from, buildVars>>

\* hierarchy.rs:9-37: the ranking is sorted and the scan is set up.  The sorted
\* order is resolved one position at a time by BuildScan: rest holds the entries
\* of the ranking not yet placed.
BuildRank ==
  /\ pc = "build"
  /\ ~RankingIsEmpty(RankingOf(mesh))
  /\ ~SortPanics(RankingOf(mesh))
  /\ build' = [NoBuild EXCEPT
       !.ranking = RankingOf(mesh),
       !.rest = 1..Len(RankingOf(mesh)),
       !.up_mapping = [k \in 1..Len(mesh.vertices) |-> usize_MAX]]
  /\ pc' = "build_scan"
  /\ UNCHANGED <<smoothVars, input, reader, from, mesh, stack, up>>

\* hierarchy.rs:32: the entries that may stand at the next position of the sorted
\* ranking: sort_unstable_by leaves the order of equal ranks open.  Of several
\* identical entries (i, j, rank) the first is taken: exchanging them does not
\* change the sorted Vec.
NextInOrder(ranking, rest) ==
  {k \in rest : /\ \A m \in rest : ~SortsBefore(ranking[m], ranking[k])
                /\ \A m \in rest : m < k => ranking[m] # ranking[k]}

\* a plausible slip for hierarchy.rs:39: the edge is skipped only when both
\* endpoints are claimed
ClaimedBoth(up_mapping, i, j) ==
  At(up_mapping, i) # usize_MAX /\ At(up_mapping, j) # usize_MAX

\* hierarchy.rs:39: the edge is skipped when an endpoint is claimed
Claimed(up_mapping, i, j) ==
  At(up_mapping, i) # usize_MAX \/ At(up_mapping, j) # usize_MAX

\* a plausible slip for hierarchy.rs:43-52: only i is given the new coarse index
MergeFirstOnly(b, m, i, j) ==
  [b EXCEPT
     !.up_mapping = SetAt(b.up_mapping, i, Len(b.vertices)),
     !.vertices = Append(b.vertices, At(m.vertices, i)),
     !.normals = Append(b.normals, At(m.normals, i)),
     !.dual_area = Append(b.dual_area, At(m.dual_area, i))]

\* hierarchy.rs:43-52: i and j become one coarse vertex
Merge(b, m, i, j) ==
  LET ai == At(m.dual_area, i)
      aj == At(m.dual_area, j)
      at == FAdd(ai, aj)
  IN [b EXCEPT
       !.up_mapping = SetAt(SetAt(b.up_mapping, i, Len(b.vertices)), j, Len(b.vertices)),
       !.vertices = Append(b.vertices,
          VDivS(VAdd(VScale(ai, At(m.vertices, i)), VScale(aj, At(m.vertices, j))), at)),
       !.normals = Append(b.normals,
          VNormalize(VAdd(VScale(ai, At(m.normals, i)), VScale(aj, At(m.normals, j))))),
       !.dual_area = Append(b.dual_area, at)]

\* hierarchy.rs:38-53: one iteration of the scan over the sorted ranking
BuildScan ==
  /\ pc = "build_scan"
  /\ build.rest # {}
  /\ \E k \in NextInOrder(build.ranking, build.rest) :
       LET e == build.ranking[k]
           b == [build EXCEPT !.rest = build.rest \ {k},
                              !.scanned = build.scanned + 1,
                              !.last = <<e>>]
       IN build' = IF Claimed(build.up_mapping, e[1], e[2])
                     THEN b
                     ELSE Merge(b, mesh, e[1], e[2])
  /\ UNCHANGED <<smoothVars, pc, input, reader, from, mesh, stack, up>>

\* hierarchy.rs:55-64: every unclaimed vertex becomes a coarse vertex of its own
RECURSIVE Singletons(_, _, _)
Singletons(b, m, i) ==
  IF i = Len(b.up_mapping) THEN b
  ELSE IF At(b.up_mapping, i) # usize_MAX THEN Singletons(b, m, i + 1)
  ELSE Singletons([b EXCEPT
         !.up_mapping = SetAt(b.up_mapping, i, Len(b.vertices)),
         !.vertices = Append(b.vertices, At(m.vertices, i)),
         !.normals = Append(b.normals, At(m.normals, i)),
         !.dual_area = Append(b.dual_area, At(m.dual_area, i))], m, i + 1)

\* a plausible slip for hierarchy.rs:72: the entry names the coarse vertex of i
\* where it should name the coarse vertex of j
RECURSIVE PushEdgesOwn(_, _, _, _, _)
PushEdgesOwn(adj, fine, up_mapping, i, k) ==
  IF i = Len(fine) THEN adj
  ELSE IF k = Len(At(fine, i)) THEN PushEdgesOwn(adj, fine, up_mapping, i + 1, 0)
  ELSE LET iu == At(up_mapping, i)
           ju == At(up_mapping, At(At(fine, i), k)[1])
       IN PushEdgesOwn(IF iu # ju THEN SetAt(adj, iu, Append(At(adj, iu), <<iu, usize_MAX>>))
                                   ELSE adj,
                       fine, up_mapping, i, k + 1)

\* hierarchy.rs:67-75: the fine entries of vertex i, from entry k on, pushed to
\* the list of i's coarse vertex unless both ends share it
RECURSIVE PushEdges(_, _, _, _, _)
PushEdges(adj, fine, up_mapping, i, k) ==
  IF i = Len(fine) THEN adj
  ELSE IF k = Len(At(fine, i)) THEN PushEdges(adj, fine, up_mapping, i + 1, 0)
  ELSE LET iu == At(up_mapping, i)
           ju == At(up_mapping, At(At(fine, i), k)[1])
       IN PushEdges(IF iu # ju THEN SetAt(adj, iu, Append(At(adj, iu), <<ju, usize_MAX>>))
                                ELSE adj,
                    fine, up_mapping, i, k + 1)

\* hierarchy.rs:78: a.sort_unstable_by_key(|(i, _)| *i); entries with equal keys are equal
RECURSIVE InsertByKey(_, _)
InsertByKey(s, e) ==
  IF s = <<>> THEN <<e>>
  ELSE IF e[1] < Head(s)[1] THEN <<e>> \o s
  ELSE <<Head(s)>> \o InsertByKey(Tail(s), e)

RECURSIVE SortByKey(_)
SortByKey(s) == IF s = <<>> THEN <<>> ELSE InsertByKey(SortByKey(Tail(s)), Head(s))

\* a plausible slip for hierarchy.rs:79: the dedup is left out
DedupOmitted(s) == s

\* hierarchy.rs:79: a.dedup() removes consecutive repeated entries
RECURSIVE Dedup(_)
Dedup(s) ==
  IF Len(s) < 2 THEN s
  ELSE IF s[1] = s[2] THEN Dedup(Tail(s))
  ELSE <<s[1]>> \o Dedup(Tail(s))

\* hierarchy.rs:66-80: the adjacency of the coarse mesh
CoarseAdjacency(fine, up_mapping, n) ==
  LET pushed == PushEdges([k \in 1..n |-> <<>>], fine, up_mapping, 0, 0)
  IN [k \in 1..n |-> Dedup(SortByKey(pushed[k]))]

\* hierarchy.rs:82-88: the coarse mesh has no triangles
NewMesh(b, m) ==
  ProcessMesh(b.vertices, b.normals, <<>>,
              CoarseAdjacency(m.adjacency_face, b.up_mapping, Len(b.vertices)),
              b.dual_area)

\* hierarchy.rs:55-89: the scan is over; singletons, coarse adjacency, and the
\* recursive call on the coarse mesh while this call waits with mesh and up_mapping
BuildCoarsen ==
  /\ pc = "build_scan"
  /\ build.rest = {}
  /\ LET b == Singletons(build, mesh, 0) IN
       /\ stack' = Append(stack, HierarchyLevel(mesh, b.up_mapping))
       /\ mesh' = NewMesh(b, mesh)
       /\ build' = NoBuild
  /\ pc' = "build"
  /\ UNCHANGED <<smoothVars, input, reader, from, up>>

\* hierarchy.rs:89-91: the recursion has returned; the innermost waiting call
\* pushes its level and returns
BuildReturn ==
  /\ pc = "build_return"
  /\ stack # <<>>
  /\ up' = PushLevel(up, stack[Len(stack)])
  /\ mesh' = stack[Len(stack)].mesh
  /\ stack' = SubSeq(stack, 1, Len(stack) - 1)
  /\ pc' = IF Len(stack) = 1 THEN "build_done" ELSE "build_return"
  /\ UNCHANGED <<smoothVars, input, reader, from, build>>

BuildNext ==
  \/ BuildCall
  \/ BuildTerminal
  \/ BuildSortPanic
  \/ BuildRank
  \/ BuildScan
  \/ BuildCoarsen
  \/ BuildReturn

(***************************************************************************)
(* orientation::hierarchical_smoothing, orientation.rs:7-82.               *)
(*                                                                         *)
(* SmallRng is a generator of 16 states, s -> (5 s + 3) mod 16, seeded     *)
(* with its seed mod 16.  gen::<f32>() advances it and returns the top two *)
(* bits of the new state as a multiple of 1/4, so an initial angle is a    *)
(* whole number of quarter turns and its cosine and sine are exact.        *)
(***************************************************************************)
\* orientation.rs:51: SmallRng::seed_from_u64
seed_from_u64(state) == state % 16

\* one step of the generator
rng_next(s) == (5 * s + 3) % 16

\* orientation.rs:70: rng.gen::<f32>(), a value in [0, 1), and the generator after it
Gen(s) == <<Q(rng_next(s) \div 4, 4), rng_next(s)>>

\* orientation.rs:29: an index below n drawn for the shuffle, and the generator after it
GenIndex(s, n) == <<(rng_next(s) * n) \div 16, rng_next(s)>>

\* orientation.rs:72: theta.cos() for theta = g * TAU, g a multiple of 1/4
CosTau(g) == IF g = Q(0, 4) THEN F(1) ELSE IF g = Q(2, 4) THEN F(-1) ELSE F(0)

\* orientation.rs:72: theta.sin() for theta = g * TAU, g a multiple of 1/4
SinTau(g) == IF g = Q(1, 4) THEN F(1) ELSE IF g = Q(3, 4) THEN F(-1) ELSE F(0)

\* a generator seeded from the number of the call, so that two calls differ
NewRngPerCall(call) == seed_from_u64(call)

\* orientation.rs:51: the generator of a call of hierarchical_smoothing; call
\* is the number of the top-level call it belongs to
NewRng(call) == seed_from_u64(0)

\* OrderedFloat: a total order in which NaN is equal to itself and above every number
OrderedLe(a, b) ==
  IF IsNaN(b) THEN TRUE
  ELSE IF IsNaN(a) THEN FALSE
  ELSE FCmp(a, b) \in {"lt", "eq"}

\* orientation.rs:22-24: max_by_key keeps the last of several greatest elements
RECURSIVE MaxByDot(_, _, _)
MaxByDot(a, best, k) ==
  IF k > Len(a) THEN best
  ELSE MaxByDot(a,
                IF OrderedLe(VDot(best[1], best[2]), VDot(a[k][1], a[k][2]))
                  THEN a[k] ELSE best,
                k + 1)

\* orientation.rs:7-25
extrinsic_compat(o0, n0, o1, n1) ==
  LET p0 == VCross(n0, o0)
      p1 == VCross(n1, o1)
      a == <<<<o0, o1>>, <<p0, o1>>, <<VNeg(o0), o1>>, <<VNeg(p0), o1>>,
             <<o0, p1>>, <<p0, p1>>, <<VNeg(o0), p1>>, <<VNeg(p0), p1>>>>
  IN MaxByDot(a, a[1], 2)

\* orientation.rs:36-43: the body of the neighbour loop for adjacency entry
\* weight of vertex i
SmoothStep(m, o_field, i, weight, o_i) ==
  LET j == At(At(m.adjacency_face, i), weight)[1]
      n_i == At(m.normals, i)
      compat == extrinsic_compat(o_i, n_i, At(o_field, j), At(m.normals, j))
      sum == VAdd(VScale(F(weight), compat[1]), compat[2])
      tangent == VSub(sum, VScale(VDot(sum, n_i), n_i))
  IN VNormalize(tangent)

\* a plausible slip for orientation.rs:32-46: a vertex without neighbours is
\* given the zero vector, not the direction it had
RECURSIVE SmoothOverFromZero(_, _, _, _, _)
SmoothOverFromZero(m, o_field, i, weight, o_i) ==
  IF weight = Len(At(m.adjacency_face, i)) THEN (IF weight = 0 THEN ZERO ELSE o_i)
  ELSE SmoothOverFromZero(m, o_field, i, weight + 1, SmoothStep(m, o_field, i, weight, o_i))

\* orientation.rs:35-44: the direction of vertex i after the neighbours from
\* entry weight on
RECURSIVE SmoothOver(_, _, _, _, _)
SmoothOver(m, o_field, i, weight, o_i) ==
  IF weight = Len(At(m.adjacency_face, i)) THEN o_i
  ELSE SmoothOver(m, o_field, i, weight + 1, SmoothStep(m, o_field, i, weight, o_i))

\* a plausible slip for orientation.rs:29: the shuffle copies the drawn element
\* to position i and does not swap
RECURSIVE ShuffleOverwrite(_, _, _)
ShuffleOverwrite(indices, s, i) ==
  IF i < 1 THEN <<indices, s>>
  ELSE LET g == GenIndex(s, i + 1)
       IN ShuffleOverwrite(SetAt(indices, i, At(indices, g[1])), g[2], i - 1)

\* orientation.rs:28-29: indices.shuffle(rng), from position i down to 1; the
\* shuffled Vec and the generator after it
RECURSIVE Shuffle(_, _, _)
Shuffle(indices, s, i) ==
  IF i < 1 THEN <<indices, s>>
  ELSE LET g == GenIndex(s, i + 1)
           swapped == SetAt(SetAt(indices, i, At(indices, g[1])), g[1], At(indices, i))
       IN Shuffle(swapped, g[2], i - 1)

\* orientation.rs:63-72: the direction of a vertex with normal n at angle g * TAU
InitialDirection(n, g) ==
  LET sign == IF FLt(n[3], F(0)) THEN F(-1) ELSE F(1)
      a == FDiv(F(-1), FAdd(sign, n[3]))
      b == FMul(FMul(n[1], n[2]), a)
      x == Vec3(FAdd(F(1), FMul(FMul(FMul(sign, n[1]), n[1]), a)),
                FMul(sign, b),
                FMul(FNeg(sign), n[1]))
      y == Vec3(b, FAdd(sign, FMul(FMul(n[2], n[2]), a)), FNeg(n[2]))
  IN VAdd(VScale(CosTau(g), x), VScale(SinTau(g), y))

\* orientation.rs:61-73: the random field from vertex i on: the field, the
\* generator after it and the angles drawn
RECURSIVE RandomField(_, _, _, _, _)
RandomField(m, init, s, angles, i) ==
  IF i = Len(m.vertices) THEN <<init, s, angles>>
  ELSE LET g == Gen(s)
       IN RandomField(m, Append(init, InitialDirection(At(m.normals, i), g[1])),
                      g[2], Append(angles, g[1]), i + 1)

\* a plausible slip for orientation.rs:57: every vertex takes the direction of
\* coarse vertex 0, the mapping is not consulted
ProlongFirst(level, coarse_field) ==
  [k \in 1..Len(level.mesh.vertices) |-> At(coarse_field, 0)]

\* orientation.rs:55-58: every vertex takes the direction of its coarse vertex
Prolong(level, coarse_field) ==
  [k \in 1..Len(level.mesh.vertices) |-> At(coarse_field, level.up_mapping[k])]

\* start records the field as it was when the sweep under way began
NoSmooth ==
  [iterations |-> 0, len |-> 0, rngs |-> <<>>, field |-> <<>>, order |-> <<>>,
   sweep |-> 0, drawn |-> <<>>, start |-> <<>>]

\* the generator of the innermost active call
Rng == smooth.rngs[Len(smooth.rngs)]

SetRng(rngs, s) == [rngs EXCEPT ![Len(rngs)] = s]

\* lib.rs:85: hierarchical_smoothing is called on the hierarchy that build
\* returned; a later call has the same arguments
SmoothCall ==
  /\ pc \in {"build_done", "smooth_done"}
  /\ Len(results) < Calls
  /\ \E n \in (IF results = <<>> THEN 0..MaxIterations ELSE {smooth.iterations}) :
       smooth' = [NoSmooth EXCEPT !.iterations = n, !.len = Len(up)]
  /\ pc' = "smooth_enter"
  /\ UNCHANGED <<input, reader, from, buildVars, results>>

\* orientation.rs:51-54: a call makes its generator, and recurses on the
\* hierarchy without its last level if there is more than one level
SmoothEnter ==
  /\ pc = "smooth_enter"
  /\ smooth' = [smooth EXCEPT
       !.rngs = Append(smooth.rngs, NewRng(Len(results) + 1)),
       !.len = IF smooth.len > 1 THEN smooth.len - 1 ELSE smooth.len]
  /\ pc' = IF smooth.len > 1 THEN "smooth_enter" ELSE "smooth_init"
  /\ UNCHANGED <<input, reader, from, buildVars, results>>

\* orientation.rs:60-75: the call on one level draws the initial field
SmoothInit ==
  /\ pc = "smooth_init"
  /\ LET r == RandomField(up[1].mesh, <<>>, Rng, <<>>, 0) IN
       smooth' = [smooth EXCEPT
         !.field = r[1],
         !.rngs = SetRng(smooth.rngs, r[2]),
         !.drawn = Append(smooth.drawn, r[3]),
         !.sweep = 0]
  /\ pc' = "smooth_sweep"
  /\ UNCHANGED <<input, reader, from, buildVars, results>>

\* orientation.rs:77-78, 28-29: one more sweep begins with the shuffle of its
\* visiting order; a sweep over no vertex is over at once
SmoothShuffle ==
  /\ pc = "smooth_sweep"
  /\ smooth.sweep < smooth.iterations
  /\ LET n == Len(up[smooth.len].mesh.vertices)
         r == Shuffle([k \in 1..n |-> k - 1], Rng, n - 1)
     IN /\ smooth' = [smooth EXCEPT
             !.order = r[1],
             !.start = smooth.field,
             !.rngs = SetRng(smooth.rngs, r[2]),
             !.drawn = Append(smooth.drawn, r[1]),
             !.sweep = IF n = 0 THEN smooth.sweep + 1 ELSE smooth.sweep]
        /\ pc' = IF n = 0 THEN "smooth_sweep" ELSE "smooth_vertex"
  /\ UNCHANGED <<input, reader, from, buildVars, results>>

\* orientation.rs:31: the visiting order after its first index; the order is
\* read by position, whatever way the sequence was built
Rest(order) == [k \in 1..(Len(order) - 1) |-> order[k + 1]]

\* a plausible slip for orientation.rs:32-36: the sweep reads a copy of the
\* field made before its first update
ReadSnapshot(o_field, before) == before

\* orientation.rs:32-36: o_field[i] and o_field[*j] are read from the slice
\* that orientation.rs:46 writes
ReadField(o_field, before) == o_field

\* orientation.rs:31-47: the next vertex of the visiting order is updated in place
SmoothVertex ==
  /\ pc = "smooth_vertex"
  /\ LET i == smooth.order[1]
         read == ReadField(smooth.field, smooth.start)
         o_i == SmoothOver(up[smooth.len].mesh, read, i, 0, At(read, i))
     IN smooth' = [smooth EXCEPT
          !.field = SetAt(smooth.field, i, o_i),
          !.order = Rest(smooth.order),
          !.sweep = IF Len(smooth.order) = 1 THEN smooth.sweep + 1 ELSE smooth.sweep]
  /\ pc' = IF Len(smooth.order) = 1 THEN "smooth_sweep" ELSE "smooth_vertex"
  /\ UNCHANGED <<input, reader, from, buildVars, results>>

\* orientation.rs:81, 54-59: the sweeps of a coarser level are over; the inner
\* call returns and its caller starts from the prolonged field
SmoothProlong ==
  /\ pc = "smooth_sweep"
  /\ smooth.sweep = smooth.iterations
  /\ smooth.len < Len(up)
  /\ smooth' = [smooth EXCEPT
       !.rngs = SubSeq(smooth.rngs, 1, Len(smooth.rngs) - 1),
       !.len = smooth.len + 1,
       !.field = Prolong(up[smooth.len + 1], smooth.field),
       !.sweep = 0]
  /\ UNCHANGED <<pc, input, reader, from, buildVars, results>>

\* orientation.rs:81: the outermost call returns the field of the finest level
SmoothReturn ==
  /\ pc = "smooth_sweep"
  /\ smooth.sweep = smooth.iterations
  /\ smooth.len = Len(up)
  /\ results' = Append(results, [field |-> smooth.field, drawn |-> smooth.drawn])
  /\ pc' = "smooth_done"
  /\ UNCHANGED <<input, reader, from, buildVars, smooth>>

SmoothNext ==
  \/ SmoothCall
  \/ SmoothEnter
  \/ SmoothInit
  \/ SmoothShuffle
  \/ SmoothVertex
  \/ SmoothProlong
  \/ SmoothReturn

FromNext ==
  \/ FromAdjacency
  \/ FromVertex
  \/ FromIndexPanic
  \/ FromClose
  \/ FromStep
  \/ FromFallback
  \/ FromReturn

(***************************************************************************)
(* AsyncStreamReader (stream.rs).                                          *)
(***************************************************************************)
MaxStream == 4

MaxChunks == 3

MaxExact == 2

MaxReads == 4

\* stream.rs:32: b'\n'
NEWLINE == 10

\* the bytes of the streams tried: the newline and one other byte
Bytes == {NEWLINE, 97}

\* buf[a..b]
Slice(buf, a, b) == [k \in 1..(b - a) |-> buf[a + k]]

\* the lists of chunks a source can yield: up to MaxChunks chunks, any of
\* them empty, of up to MaxStream bytes together
ChunkLists ==
  {<<>>} \cup
  UNION {UNION {{[i \in 1..k |-> Slice(s, IF i = 1 THEN 0 ELSE cut[i - 1],
                                          IF i = k THEN Len(s) ELSE cut[i])] :
                   cut \in {c \in [1..(k - 1) -> 0..Len(s)] :
                              \A i \in 1..(k - 2) : c[i] <= c[i + 1]}} :
                k \in 1..MaxChunks} :
         s \in SeqsUpTo(Bytes, MaxStream)}

NoOutcome == [op |-> "none", len |-> 0, kind |-> "none", bytes |-> <<>>, fetches |-> 0]

\* stream.rs:13-21: the reader of a source that yields chunks and then None.
\* fetched counts the chunks yielded; pos counts the bytes of the stream that
\* successful calls have handed out or skipped, clean says that no call has
\* failed, last is the outcome of the last call, reads counts the calls
AsyncStreamReader(chunks) ==
  [buf |-> <<>>, last_end |-> 0, chunks |-> chunks, fetched |-> 0,
   pos |-> 0, clean |-> TRUE, last |-> NoOutcome, reads |-> 0]

NoReader == AsyncStreamReader(<<>>)

\* stream.rs:32: self.buf[len..].iter().position(|b| *b == b'\n'), -1 for None
RECURSIVE NewlineFrom(_, _, _)
NewlineFrom(buf, len, idx) ==
  IF len + idx >= Len(buf) THEN -1
  ELSE IF buf[len + idx + 1] = NEWLINE THEN idx
  ELSE NewlineFrom(buf, len, idx + 1)

\* a plausible slip for stream.rs:33: the newline is not counted
LineEndAtNewline(len, idx) == len + idx

\* stream.rs:33: len += idx + 1
LineEnd(len, idx) == len + idx + 1

\* stream.rs:31-41: the loop of read_line from the search at offset len on:
\* the buffer, the chunks fetched, and the line's end or -1 at end of stream
RECURSIVE ReadLineLoop(_, _, _, _)
ReadLineLoop(buf, len, chunks, fetched) ==
  LET idx == NewlineFrom(buf, len, 0) IN
    IF idx # -1 THEN [buf |-> buf, fetched |-> fetched, len |-> LineEnd(len, idx)]
    ELSE IF fetched = Len(chunks) THEN [buf |-> buf, fetched |-> fetched, len |-> -1]
    ELSE ReadLineLoop(buf \o chunks[fetched + 1], Len(buf), chunks, fetched + 1)

\* stream.rs:56-61: the loop of read_exact: the buffer and the chunks fetched,
\* filled FALSE at end of stream
RECURSIVE ReadExactLoop(_, _, _, _)
ReadExactLoop(buf, len, chunks, fetched) ==
  IF Len(buf) >= len THEN [buf |-> buf, fetched |-> fetched, filled |-> TRUE]
  ELSE IF fetched = Len(chunks) THEN [buf |-> buf, fetched |-> fetched, filled |-> FALSE]
  ELSE ReadExactLoop(buf \o chunks[fetched + 1], len, chunks, fetched + 1)

\* stream.rs:24: self.buf[self.last_end..] panics when last_end > buf.len()
ShiftPanics(r) == r.last_end > Len(r.buf)

\* stream.rs:23-25
shift_leftovers(r) == Slice(r.buf, r.last_end, Len(r.buf))

\* the record of a call that panicked in shift_leftovers
Panicked(r, op, len) ==
  [r EXCEPT !.clean = FALSE, !.reads = r.reads + 1,
            !.last = [op |-> op, len |-> len, kind |-> "panic", bytes |-> <<>>, fetches |-> 0]]

\* stream.rs:27-44: the reader after read_line. At end of stream the error
\* leaves through line 39, after the shift and before line 42
read_line(r) ==
  IF ShiftPanics(r) THEN Panicked(r, "read_line", 0)
  ELSE LET l == ReadLineLoop(shift_leftovers(r), 0, r.chunks, r.fetched) IN
    IF l.len = -1
      THEN [r EXCEPT !.buf = l.buf, !.fetched = l.fetched,
                     !.clean = FALSE, !.reads = r.reads + 1,
                     !.last = [op |-> "read_line", len |-> 0, kind |-> "eof", bytes |-> <<>>,
                               fetches |-> l.fetched - r.fetched]]
      ELSE [r EXCEPT !.buf = l.buf, !.fetched = l.fetched, !.last_end = l.len,
                     !.pos = r.pos + l.len, !.reads = r.reads + 1,
                     !.last = [op |-> "read_line", len |-> 0, kind |-> "ok",
                               bytes |-> Slice(l.buf, 0, l.len - 1),
                               fetches |-> l.fetched - r.fetched]]

\* stream.rs:50-66: the reader after read_exact(len). At end of stream the
\* error leaves through line 59
read_exact(r, len) ==
  LET shifts == Len(r.buf) < r.last_end + len IN
  IF shifts /\ ShiftPanics(r) THEN Panicked(r, "read_exact", len)
  ELSE LET buf == IF shifts THEN shift_leftovers(r) ELSE r.buf
           start == IF shifts THEN 0 ELSE r.last_end
           l == ReadExactLoop(buf, len, r.chunks, r.fetched)
       IN IF ~l.filled
            THEN [r EXCEPT !.buf = l.buf, !.fetched = l.fetched, !.last_end = start,
                           !.clean = FALSE, !.reads = r.reads + 1,
                           !.last = [op |-> "read_exact", len |-> len, kind |-> "eof",
                                     bytes |-> <<>>, fetches |-> l.fetched - r.fetched]]
            ELSE [r EXCEPT !.buf = l.buf, !.fetched = l.fetched, !.last_end = start + len,
                           !.pos = r.pos + len, !.reads = r.reads + 1,
                           !.last = [op |-> "read_exact", len |-> len, kind |-> "ok",
                                     bytes |-> Slice(l.buf, start, start + len),
                                     fetches |-> l.fetched - r.fetched]]

\* a caller awaits read_line
ReadLine ==
  /\ pc = "stream"
  /\ reader.reads < MaxReads
  /\ reader' = read_line(reader)
  /\ pc' = IF reader'.last.kind = "panic" THEN "panic_slice" ELSE "stream"
  /\ UNCHANGED <<input, from, afterFrom>>

\* a caller awaits read_exact(len)
ReadExact ==
  /\ pc = "stream"
  /\ reader.reads < MaxReads
  /\ \E len \in 0..MaxExact : reader' = read_exact(reader, len)
  /\ pc' = IF reader'.last.kind = "panic" THEN "panic_slice" ELSE "stream"
  /\ UNCHANGED <<input, from, afterFrom>>

StreamNext ==
  \/ ReadLine
  \/ ReadExact

InitWith(inputs) ==
  /\ input \in inputs
  /\ reader = NoReader
  /\ pc = "from"
  /\ from = NoFrom
  /\ mesh = ProcessMesh(<<>>, <<>>, <<>>, <<>>, <<>>)
  /\ build = NoBuild
  /\ stack = <<>>
  /\ up = <<>>
  /\ smooth = NoSmooth
  /\ results = <<>>

\* ProcessMesh::from does not read the normals
InitMesh == InitWith(InputMeshes(MaxVerts, MaxTris, 0, {1}))

SpecMesh == InitMesh /\ [][FromNext]_vars

\* the regular octahedron: 6 vertices on the axes, 8 triangles wound outwards,
\* and one normal (0, 0, signs[k]) per vertex
Octahedron(signs) ==
  [vertices |-> <<Vec3(F(1), F(0), F(0)), Vec3(F(-1), F(0), F(0)),
                  Vec3(F(0), F(1), F(0)), Vec3(F(0), F(-1), F(0)),
                  Vec3(F(0), F(0), F(1)), Vec3(F(0), F(0), F(-1))>>,
   normals  |-> [k \in 1..6 |-> UnitZ(signs[k])],
   tris     |-> <<<<0, 2, 4>>, <<2, 1, 4>>, <<1, 3, 4>>, <<3, 0, 4>>,
                  <<2, 0, 5>>, <<1, 2, 5>>, <<3, 1, 5>>, <<0, 3, 5>>>>]

\* the normals of the octahedra: all but the lower pole up, and up or down by
\* the side of the plane x + y + z = 0 the vertex is on
Octahedra == {Octahedron(<<1, 1, 1, 1, 1, -1>>), Octahedron(<<1, -1, 1, -1, 1, -1>>)}

\* two triangles without a common vertex, with one normal (0, 0, signs[k]) per
\* vertex: a mesh of two connected components
TwoTriangles(signs) ==
  InputMesh(6, [k \in 1..6 |-> UnitZ(signs[k])], <<<<0, 1, 2>>, <<3, 5, 4>>>>)

Disconnected == {TwoTriangles(<<1, 1, 1, 1, 1, 1>>), TwoTriangles(<<1, -1, 1, -1, -1, 1>>)}

InitBuild ==
  InitWith(InputMeshes(MaxVerts, MaxTris, 0, {1, -1})
           \cup InputMeshes(MaxVerts, 1, MaxCollapsed, {1, -1})
           \cup Octahedra
           \cup Disconnected)

SpecBuild == InitBuild /\ [][FromNext \/ BuildNext]_vars

\* two triangles that share vertex 2 and a third triangle apart from them: the
\* smaller component is down to one vertex a level before the larger one
Uneven ==
  InputMesh(8, [k \in 1..8 |-> UnitZ(1)], <<<<0, 1, 2>>, <<2, 3, 4>>, <<5, 6, 7>>>>)

InitSmooth == InitWith(InputMeshes(MaxVerts, MaxTris, 0, {1, -1}) \cup Disconnected \cup {Uneven})

SpecSmooth == InitSmooth /\ [][FromNext \/ BuildNext \/ SmoothNext]_vars

\* a reader on any list of chunks; no mesh is being processed
InitStream ==
  /\ reader \in {AsyncStreamReader(chunks) : chunks \in ChunkLists}
  /\ pc = "stream"
  /\ input = InputMesh(0, <<>>, <<>>)
  /\ from = NoFrom
  /\ mesh = ProcessMesh(<<>>, <<>>, <<>>, <<>>, <<>>)
  /\ build = NoBuild
  /\ stack = <<>>
  /\ up = <<>>
  /\ smooth = NoSmooth
  /\ results = <<>>

SpecStream == InitStream /\ [][StreamNext]_vars

(***************************************************************************)
(* Properties of hierarchy::build, checked under SpecBuild.                *)
(***************************************************************************)
\* a coarsening step has just ended: the coarse mesh is the argument of the
\* recursive call and the fine mesh waits on top of the stack
StepDone == pc = "build" /\ stack # <<>>

Fine == stack[Len(stack)].mesh

FineUp == stack[Len(stack)].up_mapping

HasEdge(m) == \E v \in 1..Len(m.adjacency_face) : m.adjacency_face[v] # <<>>

\* the fine mesh has an adjacency entry from i to j
FineEdge(m, i, j) ==
  \E k \in 1..Len(At(m.adjacency_face, i)) : At(m.adjacency_face, i)[k][1] = j

\* C1: build comes to an end, and every coarsening step leaves strictly fewer
\* vertices in the coarse mesh than the fine mesh has: no comparison of ranks
\* panics, and after each step the coarse vertex count is below the fine one.
C1_StrictlyFewerVertices ==
  /\ pc # "panic_unwrap"
  /\ StepDone => Len(mesh.vertices) < Len(Fine.vertices)

\* the vertices of the mesh that level k of the returned Vec maps into
\* (level k - 1), as a set of indices
LevelBelow(levels, k) == Indices(levels[k - 1].mesh.vertices)

\* the image of vertex v of level k in level 0, -1 when some mapping on the way
\* has no valid entry for it
RECURSIVE ComposeUp(_, _, _)
ComposeUp(levels, k, v) ==
  IF k = 1 THEN v
  ELSE IF v \notin Indices(levels[k].up_mapping) THEN -1
  ELSE IF At(levels[k].up_mapping, v) \notin LevelBelow(levels, k) THEN -1
  ELSE ComposeUp(levels, k - 1, At(levels[k].up_mapping, v))

\* C2: in the Vec that build returns, the up_mapping of every level k > 0 has one
\* entry per vertex of level k's mesh, every entry is a valid index of a vertex
\* of level k - 1's mesh, and the mappings compose from the finest level down
\* to level 0.
C2_UpMappingValid ==
  pc = "build_done" =>
    \A k \in 2..Len(up) :
      /\ Len(up[k].up_mapping) = Len(up[k].mesh.vertices)
      /\ \A v \in Indices(up[k].up_mapping) :
           At(up[k].up_mapping, v) \in LevelBelow(up, k)
      /\ \A v \in Indices(up[k].mesh.vertices) :
           ComposeUp(up, k, v) \in Indices(up[1].mesh.vertices)

\* C2 witness: build has returned three levels or more
C2_ThreeLevels == pc = "build_done" /\ Len(up) >= 3

\* C3: level 0 of the returned Vec is a mesh without adjacency edges and has an
\* empty up_mapping; every level above it has at least one adjacency edge.
C3_CoarsestFirst ==
  pc = "build_done" =>
    /\ Len(up) >= 1
    /\ ~HasEdge(up[1].mesh)
    /\ up[1].up_mapping = <<>>
    /\ \A k \in 2..Len(up) : HasEdge(up[k].mesh)

\* C3 witness: a returned Vec with levels above level 0
C3_Returned == pc = "build_done" /\ Len(up) >= 2 /\ Len(up[1].mesh.vertices) >= 1

\* the entries of the ranking that the scan has passed
Scanned(b) == (1..Len(b.ranking)) \ b.rest

\* the fine vertices mapped to coarse vertex c
Preimage(up_mapping, c) == {v \in Indices(up_mapping) : At(up_mapping, v) = c}

\* C4: the scan visits the edges in descending order of score (no edge still to
\* come has a greater score than the edge visited last); an edge is merged
\* exactly when neither endpoint was claimed before (every edge passed has a
\* claimed endpoint, and every coarse vertex made by the scan holds exactly the
\* endpoints of one edge passed); so after the step no coarse vertex has more
\* than two fine vertices, and two distinct fine vertices share a coarse index
\* only if an adjacency edge of the fine mesh joins them.
C4_GreedyMatching ==
  /\ pc = "build_scan" =>
       /\ build.last # <<>> =>
            \A m \in build.rest : ~FGt(build.ranking[m][3], build.last[1][3])
       /\ \A k \in Scanned(build) :
            \/ At(build.up_mapping, build.ranking[k][1]) # usize_MAX
            \/ At(build.up_mapping, build.ranking[k][2]) # usize_MAX
       /\ \A c \in Indices(build.vertices) :
            \E k \in Scanned(build) :
              Preimage(build.up_mapping, c) = {build.ranking[k][1], build.ranking[k][2]}
  /\ StepDone =>
       /\ \A c \in Indices(mesh.vertices) : Cardinality(Preimage(FineUp, c)) <= 2
       /\ \A i, j \in Indices(FineUp) :
            (i # j /\ At(FineUp, i) = At(FineUp, j)) =>
              (FineEdge(Fine, i, j) \/ FineEdge(Fine, j, i))

\* C4 witness: a scan is over that passed edges of different scores, merged one
\* and skipped another
C4_ScanOver ==
  /\ pc = "build_scan"
  /\ build.rest = {}
  /\ Len(build.vertices) >= 1
  /\ build.scanned > Len(build.vertices)
  /\ \E a, b \in 1..Len(build.ranking) : FGt(build.ranking[a][3], build.ranking[b][3])

\* how many entries of an adjacency list name neighbour w
CountOf(list, w) == Cardinality({k \in 1..Len(list) : list[k][1] = w})

\* the adjacency entries of the fine mesh that lead from coarse vertex u to coarse vertex w
FineEntries(m, up_mapping, u, w) ==
  UNION {{<<i, k>> : k \in {k \in 1..Len(At(m.adjacency_face, i)) :
                             At(up_mapping, At(m.adjacency_face, i)[k][1]) = w}}
         : i \in {i \in Indices(m.adjacency_face) : At(up_mapping, i) = u}}

\* C5: after a coarsening step the adjacency list of coarse vertex u holds
\* coarse vertex w exactly once if u # w and some adjacency edge of the fine mesh
\* leads from a vertex mapped to u to a vertex mapped to w, and not at all
\* otherwise (so never u itself); the coarse mesh has no triangles.
C5_CoarseAdjacency ==
  StepDone =>
    /\ mesh.tris = <<>>
    /\ Len(mesh.adjacency_face) = Len(mesh.vertices)
    /\ \A u \in Indices(mesh.vertices) :
         /\ \A k \in 1..Len(At(mesh.adjacency_face, u)) :
              At(mesh.adjacency_face, u)[k][1] \in Indices(mesh.vertices)
         /\ \A w \in Indices(mesh.vertices) :
              CountOf(At(mesh.adjacency_face, u), w) =
                IF u # w /\ FineEntries(Fine, FineUp, u, w) # {} THEN 1 ELSE 0

\* C5 witness: a step is over in which two fine edges led to the same coarse
\* edge and some fine edge fell inside one coarse vertex
C5_SharedCoarseEdge ==
  /\ StepDone
  /\ \E u, w \in Indices(mesh.vertices) :
       u # w /\ Cardinality(FineEntries(Fine, FineUp, u, w)) >= 2
  /\ \E u \in Indices(mesh.vertices) : FineEntries(Fine, FineUp, u, u) # {}

\* C6: build applied to a mesh without adjacency edges returns at once exactly
\* one level: that level's mesh is the mesh it was given, its up_mapping is
\* empty, and no scan is begun.
C6_EdgeFreeIsOneLevel ==
  [][(pc = "build" /\ ~HasEdge(mesh)) =>
       /\ pc' \in {"build_return", "build_done"}
       /\ up' = <<[mesh |-> mesh, up_mapping |-> <<>>]>>
       /\ mesh' = mesh
       /\ build' = build]_vars

\* C6 witness: a call on an edge-free mesh with a vertex has returned its level
C6_OneLevelReturned ==
  /\ pc \in {"build_return", "build_done"}
  /\ Len(up) = 1
  /\ Len(mesh.vertices) >= 1
  /\ ~HasEdge(mesh)

(***************************************************************************)
(* Properties of ProcessMesh::from, checked under SpecMesh.                *)
(***************************************************************************)
\* the vertices of the input that no triangle names
Unreferenced ==
  {v \in Indices(input.vertices) :
     \A t \in 1..Len(input.tris) : \A k \in 1..3 : input.tris[t][k] # v}

\* C7: when the input has a vertex that no triangle names, from() does not
\* panic, and when it returns that vertex has an empty adjacency list and a
\* finite dual area that is not negative.
C7_UnreferencedVertexHandled ==
  Unreferenced # {} =>
    /\ pc # "panic_index"
    /\ pc = "from_done" =>
         \A v \in Unreferenced :
           /\ At(from.adjacency_face, v) = <<>>
           /\ IsFinite(At(from.dual_area, v))
           /\ ~FLt(At(from.dual_area, v), F(0))

\* C8: the one-ring walk of a vertex ends.  The next destination of the walk is
\* a function of the current one, and every destination met is a neighbour in
\* the vertex's adjacency list, so a walk that ends has pushed fewer
\* circumcenters than the list has entries: a walk that pushes more has met a
\* destination twice and goes round for ever.
C8_WalkEnds ==
  pc = "from_walk" =>
    Len(from.circumcenters) <= Len(At(from.adjacency_face, from.i))

\* a mesh of three vertices and one face that names each of them
SingleTriangle(m) ==
  /\ Len(m.vertices) = 3
  /\ Len(m.tris) = 1
  /\ {m.tris[1][k] : k \in 1..3} = {0, 1, 2}

\* C9: when the walk of vertex i comes to a destination that i's adjacency list
\* has no entry for, the step sets i's dual area to exactly 1.0, leaves every
\* other dual area as it was and goes on to the next vertex; no step of the
\* derivation changes the dual area of a vertex other than the current one; and
\* from() returns a single-triangle mesh with dual areas 1.0, 1.0, 1.0.
C9_FallbackArea ==
  [][/\ (/\ pc = "from_walk"
         /\ FirstWith(At(from.adjacency_face, from.i),
                      NextDest(from.tri, from.dest)) = {}) =>
           /\ from'.dual_area = SetAt(from.dual_area, from.i, F(1))
           /\ from'.i = from.i + 1
           /\ pc' = "from_vertex"
     /\ pc \in {"from_vertex", "from_walk"} =>
           \A v \in Indices(from.dual_area) \ {from.i} :
             At(from'.dual_area, v) = At(from.dual_area, v)
     /\ (pc' = "from_done" /\ SingleTriangle(input)) =>
           from'.dual_area = <<F(1), F(1), F(1)>>]_vars

\* C9 witness: from() has returned a single-triangle mesh, every walk of which
\* ended in the fallback
C9_SingleTriangleDone ==
  /\ pc = "from_done"
  /\ SingleTriangle(input)
  /\ from.dual_area = <<F(1), F(1), F(1)>>

RECURSIVE Advance(_, _)
Advance(s, n) == IF n = 0 THEN s ELSE Advance(rng_next(s), n - 1)

\* the draws behind the record of a call from entry k on: one per initial
\* angle (entry 1), and one per position but the first of a visiting order
RECURSIVE DrawsMade(_, _)
DrawsMade(drawn, k) ==
  IF k > Len(drawn) THEN 0
  ELSE (IF k = 1 THEN Len(drawn[k])
        ELSE IF Len(drawn[k]) > 1 THEN Len(drawn[k]) - 1 ELSE 0)
       + DrawsMade(drawn, k + 1)

\* C11: one solve makes one generator, seeded once, and every level draws from
\* it where the level before left it: no call holds a second generator, and
\* the generator a level sweeps with has made every draw of the solve so far.
C11_OneGeneratorThreaded ==
  /\ Len(smooth.rngs) <= 1
  /\ pc \in {"smooth_sweep", "smooth_vertex"} =>
       Rng = Advance(seed_from_u64(0), DrawsMade(smooth.drawn, 1))

\* order holds every index below n once
IsPermutation(order, n) ==
  Len(order) = n /\ {order[k] : k \in 1..Len(order)} = 0..(n - 1)

\* the level (1 is the coarsest) that sweep q of a call belongs to
LevelOfSweep(q, iterations) == ((q - 1) \div iterations) + 1

Solving == pc \in {"smooth_sweep", "smooth_vertex"}

\* C13: the levels are solved strictly from the coarsest to the finest: the
\* first field is drawn on level 0, while a call sweeps the level never goes
\* down, and it goes up by one only when the sweeps of the level below are
\* over; at that step every vertex v of the new level takes the direction that
\* vertex up_mapping[v] of the level below holds at the end of its sweeps. The
\* returned array has one entry per vertex of the finest level.
C13_CoarsestToFinest ==
  [][/\ (pc = "smooth_init" /\ pc' # "smooth_init") => smooth'.len = 1
     /\ (Solving /\ pc' \in {"smooth_sweep", "smooth_vertex"}) =>
          \/ smooth'.len = smooth.len
          \/ /\ smooth'.len = smooth.len + 1
             /\ pc = "smooth_sweep"
             /\ smooth.sweep = smooth.iterations
             /\ smooth'.sweep = 0
             /\ Len(smooth'.field) = Len(up[smooth'.len].mesh.vertices)
             /\ \A v \in 1..Len(smooth'.field) :
                  smooth'.field[v] = smooth.field[up[smooth'.len].up_mapping[v] + 1]
     /\ (Solving /\ pc' = "smooth_done") =>
          /\ smooth.len = Len(up)
          /\ results'[Len(results')].field = smooth.field
          /\ Len(smooth.field) = Len(up[Len(up)].mesh.vertices)
    ]_vars

\* a level of three vertices has just taken its field from a level of two
\* vertices through a mapping that is not constant, and sweeps are to follow
C13_Prolonged ==
  /\ pc = "smooth_sweep"
  /\ smooth.len >= 2
  /\ smooth.sweep = 0
  /\ smooth.iterations >= 1
  /\ Len(smooth.field) = 3
  /\ \E v, w \in 1..3 : up[smooth.len].up_mapping[v] # up[smooth.len].up_mapping[w]

\* ---------------------------------------------------------------------------
UnitLength(o) == VDot(o, o) \in {F(1), Irr}

Orthogonal(o, n) == VDot(o, n) \in {F(0), Irr}

\* C14: after every sweep of every level, the direction of every vertex of the
\* level is unit length and orthogonal to the normal of that vertex. A length
\* or a product that the exact arithmetic leaves as an undetermined finite
\* number (Irr) is not counted against the property.
C14_UnitTangentAfterSweep ==
  (pc = "smooth_sweep" /\ smooth.sweep >= 1) =>
    \A v \in 1..Len(smooth.field) :
      /\ UnitLength(smooth.field[v])
      /\ Orthogonal(smooth.field[v], up[smooth.len].mesh.normals[v])

\* ---------------------------------------------------------------------------
DefinedAtLeastOne(r) == IsIrr(r) \/ (IsFinite(r) /\ FCmp(r, F(1)) \in {"gt", "eq"})

\* C15: for every directed adjacency edge (i, j) of a mesh that build is about
\* to score, the ratio factor is a defined number that is at least 1, and the
\* sort of the scores never fails. A ratio that the exact arithmetic leaves
\* undetermined (Irr) is not counted against the property.
C15_RatioDefined ==
  /\ pc # "panic_unwrap"
  /\ pc = "build" =>
       \A v \in 1..Len(mesh.adjacency_face) :
         \A k \in 1..Len(mesh.adjacency_face[v]) :
           DefinedAtLeastOne(Ratio(mesh.dual_area[v],
                                   At(mesh.dual_area, mesh.adjacency_face[v][k][1])))

\* ---------------------------------------------------------------------------
DirectedEdges(tris) ==
  {<<t, k>> : t \in 1..Len(tris), k \in 1..3}

EdgeOf(tris, e) == <<tris[e[1]][e[2]], tris[e[1]][(e[2] % 3) + 1]>>

\* every triangle names three vertices, every vertex is named, and every
\* directed edge occurs once and its reverse occurs once
ClosedManifold(m) ==
  /\ m.tris # <<>>
  /\ \A t \in 1..Len(m.tris) : Cardinality({m.tris[t][k] : k \in 1..3}) = 3
  /\ \A v \in 0..(Len(m.vertices) - 1) : \E t \in 1..Len(m.tris) : \E k \in 1..3 : m.tris[t][k] = v
  /\ \A e \in DirectedEdges(m.tris) :
       /\ Cardinality({f \in DirectedEdges(m.tris) : EdgeOf(m.tris, f) = EdgeOf(m.tris, e)}) = 1
       /\ Cardinality({f \in DirectedEdges(m.tris) :
                         EdgeOf(m.tris, f) = <<EdgeOf(m.tris, e)[2], EdgeOf(m.tris, e)[1]>>}) = 1

TriangleArea(m, tri) ==
  FMul(Q(1, 2), VLength(VCross(VSub(At(m.vertices, tri[2]), At(m.vertices, tri[1])),
                               VSub(At(m.vertices, tri[3]), At(m.vertices, tri[1])))))

RECURSIVE SurfaceArea(_, _)
SurfaceArea(m, t) ==
  IF t > Len(m.tris) THEN F(0) ELSE FAdd(TriangleArea(m, m.tris[t]), SurfaceArea(m, t + 1))

RECURSIVE SumFrom(_, _)
SumFrom(areas, k) == IF k > Len(areas) THEN F(0) ELSE FAdd(areas[k], SumFrom(areas, k + 1))

RelativeTolerance == Q(1, 100)

\* |a - b| <= RelativeTolerance * b; an undetermined value is not counted against it
WithinTolerance(a, b) ==
  LET d == FSub(a, b)
      bound == FMul(RelativeTolerance, b)
  IN \/ IsIrr(d)
     \/ /\ FCmp(d, bound) \in {"lt", "eq"}
        /\ FCmp(FNeg(d), bound) \in {"lt", "eq"}

\* C16: for every closed, consistently wound manifold triangle mesh, the sum of
\* the dual areas that ProcessMesh::from returns equals the total area of the
\* triangles up to a small relative tolerance.
C16_DualAreasSumToSurface ==
  (pc = "from_done" /\ ClosedManifold(input)) =>
    WithinTolerance(SumFrom(from.dual_area, 1), SurfaceArea(input, 1))

\* ---------------------------------------------------------------------------
\* C17: for a single-triangle mesh, build does not fail, recurses twice and
\* returns three levels: the finest level of 3 vertices whose up_mapping sends
\* exactly two vertices to one coarse index, the level of 2 vertices, which
\* still has an edge, and the terminal level without adjacency edges.
C17_SingleTriangleThreeLevels ==
  SingleTriangle(input) =>
    /\ pc \notin {"panic_index", "panic_unwrap"}
    /\ Len(stack) <= 2
    /\ (pc = "build" /\ Len(stack) = 1) => Len(mesh.vertices) = 2
    /\ (pc = "build" /\ Len(stack) = 2) => ~HasEdge(mesh)
    /\ pc = "build_done" =>
         /\ Len(up) = 3
         /\ up[3].mesh = Processed
         /\ Len(up[3].up_mapping) = 3
         /\ {up[3].up_mapping[k] : k \in 1..3} = {0, 1}
         /\ Len(up[2].mesh.vertices) = 2
         /\ HasEdge(up[2].mesh)
         /\ ~HasEdge(up[1].mesh)
         /\ up[1].up_mapping = <<>>

\* build has returned for a single triangle whose normals are not all equal
C17_SingleTriangleBuilt ==
  /\ pc = "build_done"
  /\ SingleTriangle(input)
  /\ input.normals[1] # input.normals[2]
  /\ Len(up) = 3

\* ---------------------------------------------------------------------------
IsOctahedron(m) ==
  /\ Len(m.vertices) = 6
  /\ Len(m.tris) = 8
  /\ ClosedManifold(m)
  /\ \A v \in 0..5 :
       Cardinality({e \in DirectedEdges(m.tris) : EdgeOf(m.tris, e)[1] = v}) = 4

WalkCloses ==
  /\ pc = "from_walk"
  /\ NextDest(from.tri, from.dest) = At(At(from.adjacency_face, from.i), 0)[1]

\* C19: in a closed, consistently wound manifold mesh, when the walk of a
\* vertex with d incident triangles closes, it has accumulated exactly d
\* circumcenters, one per incident triangle, for the polygon-area formula.
C19_OneCircumcenterPerTriangle ==
  (WalkCloses /\ ClosedManifold(input)) =>
    Len(from.circumcenters) = Len(At(from.adjacency_face, from.i))

\* ---------------------------------------------------------------------------
\* the vertices joined to a vertex of S by an adjacency entry in either direction
Joined(m, S) ==
  S \cup {w \in Indices(m.vertices) : \E v \in S : FineEdge(m, v, w) \/ FineEdge(m, w, v)}

\* the connected component of the set S in the adjacency graph read as undirected
RECURSIVE Component(_, _)
Component(m, S) == IF Joined(m, S) = S THEN S ELSE Component(m, Joined(m, S))

Components(m) == {Component(m, {v}) : v \in Indices(m.vertices)}

\* C20: in the Vec that build returns, two vertices of the finest level have
\* the same image in level 0 under the composed up_mappings exactly if they
\* are in the same connected component of the finest adjacency graph (edges
\* read as undirected), and level 0 has one vertex per component.
C20_OneVertexPerComponent ==
  pc = "build_done" =>
    LET finest == up[Len(up)].mesh IN
      /\ \A v, w \in Indices(finest.vertices) :
           (ComposeUp(up, Len(up), v) = ComposeUp(up, Len(up), w))
             <=> (w \in Component(finest, {v}))
      /\ \A v \in Indices(finest.vertices) :
           ComposeUp(up, Len(up), v) \in Indices(up[1].mesh.vertices)
      /\ Len(up[1].mesh.vertices) = Cardinality(Components(finest))

\* build has returned three levels or more for a mesh of two components, one of
\* them of two vertices or more
C20_TwoComponentsBuilt ==
  /\ pc = "build_done"
  /\ Len(up) >= 3
  /\ Cardinality(Components(up[Len(up)].mesh)) = 2
  /\ \E c \in Components(up[Len(up)].mesh) : Cardinality(c) >= 2

\* ---------------------------------------------------------------------------
\* the scan of the current step has left vertex v unclaimed
Unclaimed(v) == At(build.up_mapping, v) = usize_MAX

\* vertex v of the fine mesh of the step just done is alone in its coarse vertex
Alone(v) == Preimage(FineUp, At(FineUp, v)) = {v}

Visited ==
  LET last == smooth.drawn[Len(smooth.drawn)] IN
    {last[k] : k \in 1..(Len(last) - Len(smooth.order))}

\* for every vertex, the value written to it in this sweep if it has been
\* updated, and its value from before the sweep otherwise
WrittenOrBefore ==
  [v \in 1..Len(smooth.field) |->
     IF (v - 1) \in Visited THEN smooth.field[v] ELSE smooth.start[v]]

\* C22: a sweep updates the field in place: the update of a vertex reads, for
\* a neighbour updated earlier in the sweep, the value written in this sweep,
\* and for a neighbour still to come its value from before the sweep; and it
\* writes the entry of the vertex being updated and no other, so a vertex
\* not yet updated still holds its value from before the sweep.
C22_InPlaceSweep ==
  [][pc = "smooth_vertex" =>
       LET i == smooth.order[1] IN
         /\ \A v \in 1..Len(smooth.field) :
              (v - 1) \notin Visited => smooth.field[v] = smooth.start[v]
         /\ Len(smooth'.field) = Len(smooth.field)
         /\ smooth'.field[i + 1] =
              SmoothOver(up[smooth.len].mesh, WrittenOrBefore, i, 0, At(WrittenOrBefore, i))
         /\ \A v \in 1..Len(smooth.field) :
              v # i + 1 => smooth'.field[v] = smooth.field[v]
    ]_vars

\* the vertex to update next has a neighbour that this sweep has already
\* given a value other than the one it had before the sweep
C22_ReadsUpdatedNeighbour ==
  /\ pc = "smooth_vertex"
  /\ \E u \in Visited :
       /\ FineEdge(up[smooth.len].mesh, smooth.order[1], u)
       /\ At(smooth.field, u) # At(smooth.start, u)
       /\ VIsFinite(At(smooth.field, u))

\* ---------------------------------------------------------------------------
\* the arguments <<o0, n0, o1, n1>> of the calls of extrinsic_compat that the
\* update of vertex i makes from adjacency entry weight on (orientation.rs:35-44)
RECURSIVE CompatCalls(_, _, _, _, _)
CompatCalls(m, o_field, i, weight, o_i) ==
  IF weight = Len(At(m.adjacency_face, i)) THEN {}
  ELSE LET j == At(At(m.adjacency_face, i), weight)[1]
       IN {<<o_i, At(m.normals, i), At(o_field, j), At(m.normals, j)>>}
            \cup CompatCalls(m, o_field, i, weight + 1,
                             SmoothStep(m, o_field, i, weight, o_i))

AtLeast(x, y) == IsIrr(x) \/ IsIrr(y) \/ FCmp(x, y) \in {"gt", "eq"}

MaximalPair(o0, n0, o1, n1) ==
  LET r == extrinsic_compat(o0, n0, o1, n1)
      p0 == VCross(n0, o0)
      p1 == VCross(n1, o1)
      as == {o0, p0, VNeg(o0), VNeg(p0)}
      bs == {o1, p1}
  IN /\ r[1] \in as
     /\ r[2] \in bs
     /\ \A a \in as, b \in bs : AtLeast(VDot(r[1], r[2]), VDot(a, b))

\* C23: every call extrinsic_compat(o0, n0, o1, n1) that a sweep makes returns
\* a pair (a, b) with a among o0, n0 x o0, -o0, -(n0 x o0) and b among o1,
\* n1 x o1 whose dot product is greater than or equal to the dot product of
\* each of the eight such pairs. A comparison with a product that the exact
\* arithmetic leaves undetermined (Irr) is not counted against the property.
C23_CompatMaximal ==
  pc = "smooth_vertex" =>
    \A c \in CompatCalls(up[smooth.len].mesh, smooth.field, smooth.order[1], 0,
                         At(smooth.field, smooth.order[1])) :
      MaximalPair(c[1], c[2], c[3], c[4])

\* ---------------------------------------------------------------------------
Isolated(m, v) == Len(At(m.adjacency_face, v)) = 0

\* the field that orientation.rs:60-75 made from the angles drawn
AsInitialised ==
  [k \in 1..Len(up[1].mesh.vertices) |->
     InitialDirection(up[1].mesh.normals[k], smooth.drawn[1][k])]

\* C24: the update of a vertex with an empty adjacency list leaves the whole
\* field as it is, so at the end of a sweep every such vertex holds the
\* direction it had before the sweep; the terminal level has no edges, and
\* from its initialisation to the return of its call its field is the field
\* as initialised: of the state of the smoothing, a step on the terminal
\* level changes the generator and the bookkeeping of the sweep, not the field.
C24_IsolatedUnchanged ==
  [][/\ (pc = "smooth_vertex" /\ Isolated(up[smooth.len].mesh, smooth.order[1])) =>
          smooth'.field = smooth.field
     /\ (pc = "smooth_vertex" /\ pc' = "smooth_sweep") =>
          \A v \in Indices(up[smooth.len].mesh.vertices) :
            Isolated(up[smooth.len].mesh, v) => At(smooth'.field, v) = At(smooth.start, v)
     /\ (pc \in {"smooth_sweep", "smooth_vertex"} /\ smooth.len = 1) =>
          /\ \A v \in Indices(up[1].mesh.vertices) : Isolated(up[1].mesh, v)
          /\ smooth.field = AsInitialised
          /\ smooth'.len = 1 => smooth'.field = smooth.field
          /\ <<input, from, mesh, build, stack, up>>' = <<input, from, mesh, build, stack, up>>
    ]_vars

\* a sweep of a terminal level of two or more vertices is over, its shuffle
\* has advanced the generator
C24_TerminalSwept ==
  /\ pc = "smooth_sweep"
  /\ smooth.len = 1
  /\ smooth.sweep >= 1
  /\ Len(smooth.field) >= 2
  /\ Rng # RandomField(up[1].mesh, <<>>, NewRng(Len(results) + 1), <<>>, 0)[2]

\* a vertex with an empty adjacency list is updated on a level that has edges
C24_IsolatedOnInnerLevel ==
  /\ pc = "smooth_vertex"
  /\ smooth.len > 1
  /\ Isolated(up[smooth.len].mesh, smooth.order[1])

\* ---------------------------------------------------------------------------
\* the concatenated stream of the reader's source
Stream == Concat(reader.chunks, 1)

\* C25: while every call so far has succeeded, the bytes handed out so far
\* are a prefix of the concatenated stream and the rest of the stream is what
\* the buffer holds past last_end followed by the chunks not yet fetched; a
\* successful read_line then returns the bytes from that point up to the next
\* newline and moves the point past the newline, and a successful
\* read_exact(len) returns exactly the next len bytes and moves the point
\* past them, however the stream is split into chunks.
C25_ConsecutiveSegments ==
  [][(pc = "stream" /\ reader.clean) =>
       /\ reader.last_end <= Len(reader.buf)
       /\ Slice(Stream, reader.pos, Len(Stream)) =
            Slice(reader.buf, reader.last_end, Len(reader.buf))
              \o Concat(reader.chunks, reader.fetched + 1)
       /\ reader'.last.kind = "ok" =>
            LET out == reader'.last.bytes IN
              /\ out = Slice(Stream, reader.pos, reader.pos + Len(out))
              /\ reader'.last.op = "read_line" =>
                   /\ \A k \in 1..Len(out) : out[k] # NEWLINE
                   /\ reader.pos + Len(out) < Len(Stream)
                   /\ Stream[reader.pos + Len(out) + 1] = NEWLINE
                   /\ reader'.pos = reader.pos + Len(out) + 1
              /\ reader'.last.op = "read_exact" =>
                   /\ Len(out) = reader'.last.len
                   /\ reader'.pos = reader.pos + Len(out)
    ]_vars

\* every call so far has succeeded, the last one fetched two chunks or more
\* and returned bytes, and calls before it had consumed bytes already
C25_ReadAcrossChunks ==
  /\ pc = "stream"
  /\ reader.clean
  /\ reader.reads >= 2
  /\ reader.last.fetches >= 2
  /\ Len(reader.last.bytes) >= 1
  /\ reader.pos > Len(reader.last.bytes) + 1

\* C26: after any sequence of read_line and read_exact calls, calls that
\* failed at the end of the stream included, last_end <= buf.len() holds and
\* no call has sliced the buffer out of range.
C26_LastEndInRange ==
  /\ reader.last_end <= Len(reader.buf)
  /\ pc # "panic_slice"

====
